---- MODULE Spec2Model ----
(***************************************************************************)
(* Model of mouse-ran-down: the delivery core (LootSender, sending.py),   *)
(* the URL dispatcher and the handlers with their retry wrappers           *)
(* (LinkHandlers, link_handling.py).                                       *)
(*                                                                         *)
(* Texts are sequences of one-character strings.  Length thresholds are    *)
(* scaled down (the constructor defaults are 300 / 1024 / 10 and the       *)
(* splitter's limit is 4096) so that every branch is exercised on short    *)
(* texts; the order collapse_at_chars < max_caption_chars <                *)
(* MAX_MESSAGE_LENGTH of the defaults is kept.                             *)
(***************************************************************************)
EXTENDS Integers, Sequences, FiniteSets, TLC

VARIABLES
    loot_items,                 \* LootItems collected from the loot folder
    max_media_group_members,    \* LootSender.max_media_group_members
    batches,                    \* result of batch_loot_items
    plans,                      \* plans[i]: outbound calls made for batches[i], in call order
    pc,                         \* position inside send_potential_media_groups
    mentioned,                  \* media_link_handler: bot_mentioned(message)
    urls_left,                  \* media_link_handler: URLs of the message not yet visited
    url,                        \* media_link_handler: the URL being handled, NoUrl between URLs
    handler,                    \* media_link_handler: the handler chosen for url
    probes,                     \* probes (get_forced_url_handler calls) made for url
    invoked,                    \* handlers invoked so far for this message, in order
    dpc,                        \* position inside media_link_handler
    cookies,                    \* LinkHandlers.cookies is set (a cookie file is configured)
    probe_retries,              \* retries made by the retry wrapper of the probe for url
    stack,                      \* call stack of handler frames, the running one last
    exc,                        \* the exception being propagated, "none" if there is none
    result,                     \* how handler(message, url) ended, "running" until it does
    tmpdirs,                    \* every directory local.tempdir() made, in order of creation
    deliveries,                 \* deliveries[b]: times batch b of the loot was sent to the chat
    invocations,                \* invocations[fn]: calls of the wrapped handler fn
    runs,                       \* runs[fn]: executions of the body of handler fn
    final_loot,                 \* batches in the folder of the last attempt that sent to its end
    raised_count,               \* exceptions raised so far, caught ones included
    n_batches,                  \* batches the media behind the URL makes
    insta,                      \* LinkHandlers.insta is set (a structured client is configured)
    post_info,                  \* what insta.media_info returns for the post
    folder,                     \* the regular files of a loot folder
    passes,                     \* file types send_potential_media_groups has collected
    found,                      \* found[t]: the files collected as file type t
    unidentified,               \* "Found unidentified file" log entries, as <<file, type>>
    tasks,                      \* TeleBot: messages put to the worker pool, not yet taken
    workers,                    \* TeleBot: the message each worker thread handles, 0 if idle
    handled,                    \* how media_link_handler ended for each message
    received,                   \* messages the polling has received
    f_pc,                       \* choose_ytdlp_format: position
    f_info,                     \* choose_ytdlp_format: info, as its duration or "None"
    f_heights,                  \* choose_ytdlp_format: heights
    f_height,                   \* choose_ytdlp_format: index of height in the ladder
    f_count,                    \* choose_ytdlp_format: candidates taken at this height
    f_seen,                     \* choose_ytdlp_format: kinds of candidates seen per height
    f_format,                   \* choose_ytdlp_format: height of the format returned, 0 for None
    g_jsons,                    \* gallerydl_url_handler: the info.json files found in tmp
    g_pos,                      \* gallerydl_url_handler: info.json files walked
    g_texts,                    \* gallerydl_url_handler: texts
    g_info_txt                  \* gallerydl_url_handler: the info.txt written for each info.json

vars == <<loot_items, max_media_group_members, batches, plans, pc,
          mentioned, urls_left, url, handler, probes, invoked, dpc,
          cookies, probe_retries,
          stack, exc, result, tmpdirs, deliveries, invocations, runs, final_loot,
          raised_count, n_batches, insta, post_info,
          folder, passes, found, unidentified,
          tasks, workers, handled, received,
          f_pc, f_info, f_heights, f_height, f_count, f_seen, f_format,
          g_jsons, g_pos, g_texts, g_info_txt>>

deliveryVars == <<loot_items, max_media_group_members, batches, plans, pc>>
dispatchVars == <<mentioned, urls_left, url, handler, probes, invoked, dpc,
                  cookies, probe_retries>>

handlerVars == <<stack, exc, result, tmpdirs, deliveries, invocations, runs, final_loot,
                 raised_count, n_batches, insta, post_info>>

classifyVars == <<folder, passes, found, unidentified>>

botVars == <<tasks, workers, handled, received>>

formatVars == <<f_pc, f_info, f_heights, f_height, f_count, f_seen, f_format>>

galleryVars == <<g_jsons, g_pos, g_texts, g_info_txt>>

\* the variables of the parts added to the three pipelines
partVars == <<classifyVars, botVars, formatVars, galleryVars>>

(***************************************************************************)
(* Bounds of the model                                                     *)
(***************************************************************************)
MaxVideo == 2          \* videos in a media-rich loot folder
MaxImage == 12         \* images in a media-rich loot folder
MaxAudio == 3          \* audio files in a media-rich loot folder
MaxGroup == 10         \* largest configured max_media_group_members
MaxTextLen == 5        \* longest text file in a text-rich loot folder
MaxUrls == 2           \* URLs in one message
MaxMatches == 2        \* named patterns one URL may match at once
MaxAttempts == 2       \* attempts of one retry wrapper (stamina's default is 10)
MaxBatches == 2        \* batches the media behind one URL makes
MaxFaults == 3         \* exceptions raised while one URL is handled
MaxFiles == 3          \* regular files in a loot folder that is classified
MaxJsons == 2          \* info.json files one gallery-dl download writes
MaxMessages == 4       \* inbound messages the polling receives
MaxCandidates == 2     \* candidates one format selector yields

\* Scaled LootSender configuration (constructor parameters) and the
\* splitter's limit (telebot.util.MAX_MESSAGE_LENGTH).
collapse_at_chars == 2
max_caption_chars == 3
MAX_MESSAGE_LENGTH == 4

Chars == {"a", "&", " ", ".", "\n"}

Min(a, b) == IF a <= b THEN a ELSE b

\* Python's None where a text is expected, and for parse_mode.
NoneText == <<"None">>
NoneMode == "None"

(***************************************************************************)
(* Text helpers                                                            *)
(***************************************************************************)
RECURSIVE Join(_)
\* '\n\n'.join(texts)
Join(texts) ==
    IF texts = <<>> THEN <<>>
    ELSE IF Len(texts) = 1 THEN texts[1]
    ELSE texts[1] \o <<"\n", "\n">> \o Join(Tail(texts))

\* telebot.formatting.escape_html applied to one character
EscapeChar(c) ==
    IF c = "&" THEN <<"&", "a", "m", "p", ";">>
    ELSE IF c = "<" THEN <<"&", "l", "t", ";">>
    ELSE IF c = ">" THEN <<"&", "g", "t", ";">>
    ELSE <<c>>

RECURSIVE escape_html(_)
escape_html(text) ==
    IF text = <<>> THEN <<>> ELSE EscapeChar(Head(text)) \o escape_html(Tail(text))

OpenTag == "<blockquote expandable>"
CloseTag == "</blockquote>"

str_to_collapsed_quotation_html(text) ==
    <<OpenTag>> \o escape_html(text) \o <<CloseTag>>

Contains(s, sub) ==
    \E i \in 1..(Len(s) - Len(sub) + 1) : SubSeq(s, i, i + Len(sub) - 1) = sub

\* smart_split._text_before_last: the part up to and including the last sub
text_before_last(part, sub) ==
    LET last == CHOOSE i \in 1..(Len(part) - Len(sub) + 1) :
                    /\ SubSeq(part, i, i + Len(sub) - 1) = sub
                    /\ \A j \in (i+1)..(Len(part) - Len(sub) + 1) :
                           SubSeq(part, j, j + Len(sub) - 1) # sub
    IN  SubSeq(part, 1, last + Len(sub) - 1)

RECURSIVE smart_split(_)
\* telebot.util.smart_split(text) with the default chars_per_string
smart_split(text) ==
    IF Len(text) < MAX_MESSAGE_LENGTH THEN <<text>>
    ELSE LET part0 == SubSeq(text, 1, MAX_MESSAGE_LENGTH)
             part == IF Contains(part0, <<"\n">>) THEN text_before_last(part0, <<"\n">>)
                     ELSE IF Contains(part0, <<".", " ">>) THEN text_before_last(part0, <<".", " ">>)
                     ELSE IF Contains(part0, <<" ">>) THEN text_before_last(part0, <<" ">>)
                     ELSE part0
         IN  <<part>> \o smart_split(SubSeq(text, Len(part) + 1, Len(text)))

(***************************************************************************)
(* LootSender.batch_loot_items                                             *)
(***************************************************************************)
Tag(filetype, items) == [i \in 1..Len(items) |-> <<filetype, items[i]>>]

\* mutant: audio is listed with video and image
MediaItemsWithAudio(li) ==
    Tag("video", li.video) \o Tag("image", li.image) \o Tag("audio", li.audio)

\* mutant: image is listed before video
MediaItemsImageFirst(li) == Tag("image", li.image) \o Tag("video", li.video)

\* the (filetype, media_item) pairs for video then image
MediaItems(li) == Tag("video", li.video) \o Tag("image", li.image)

\* mutant: chunks of n + 1
BatchedOversize(seq, n) ==
    [k \in 1..((Len(seq) + n) \div (n + 1)) |->
        SubSeq(seq, (k - 1) * (n + 1) + 1, Min(k * (n + 1), Len(seq)))]

\* itertools.batched(seq, n, strict=False)
Batched(seq, n) ==
    [k \in 1..((Len(seq) + n - 1) \div n) |->
        SubSeq(seq, (k - 1) * n + 1, Min(k * n, Len(seq)))]

EmptyBatch == [video |-> <<>>, image |-> <<>>, text |-> <<>>, audio |-> <<>>]

ItemsOf(filetype, media_batch) ==
    LET sel == SelectSeq(media_batch, LAMBDA p : p[1] = filetype)
    IN  [i \in 1..Len(sel) |-> sel[i][2]]

\* one loot_items_batch per chunk of the video+image pairs
MediaBatches(li, n) ==
    LET chunks == Batched(MediaItems(li), n)
    IN  [k \in 1..Len(chunks) |->
            [EmptyBatch EXCEPT !.video = ItemsOf("video", chunks[k]),
                               !.image = ItemsOf("image", chunks[k]),
                               !.audio = ItemsOf("audio", chunks[k])]]

\* mutant: only the first chunk of audio items is kept
AudioBatchesFirstOnly(li, n) ==
    LET chunks == Batched(li.audio, n)
    IN  [k \in 1..Min(1, Len(chunks)) |-> [EmptyBatch EXCEPT !.audio = chunks[k]]]

\* one loot_items_batch per chunk of the audio items
AudioBatches(li, n) ==
    LET chunks == Batched(li.audio, n)
    IN  [k \in 1..Len(chunks) |-> [EmptyBatch EXCEPT !.audio = chunks[k]]]

\* mutant: the joined text is put on every batch
AttachTextToAll(bs, li) ==
    LET bs1 == IF bs = <<>> /\ li.text # <<>> THEN <<EmptyBatch>> ELSE bs
    IN  [i \in 1..Len(bs1) |-> [bs1[i] EXCEPT !.text = Append(@, Join(li.text))]]

\* the text of the whole loot goes, joined, onto the first batch; a batch is
\* made for it when there is text and no media
AttachText(bs, li) ==
    LET bs1 == IF bs = <<>> /\ li.text # <<>> THEN <<EmptyBatch>> ELSE bs
    IN  IF bs1 # <<>>
        THEN [bs1 EXCEPT ![1].text = Append(@, Join(li.text))]
        ELSE bs1

batch_loot_items(li, n) ==
    AttachText(MediaBatches(li, n) \o AudioBatches(li, n), li)

MediaCount(b) == Len(b.video) + Len(b.image) + Len(b.audio)

(***************************************************************************)
(* Outbound calls on the bot.  A call records the bot method, the chat     *)
(* action, the media members (each with its own caption and parse_mode),   *)
(* the message text, and whether a timeout argument is passed.             *)
(***************************************************************************)
Member(type, item, caption, parse_mode) ==
    [type |-> type, item |-> item, caption |-> caption, parse_mode |-> parse_mode]

Call(op, action, media, text, parse_mode, timeout) ==
    [op |-> op, action |-> action, media |-> media, text |-> text,
     parse_mode |-> parse_mode, timeout |-> timeout]

\* LootSender.send_action
send_action(action) == Call("send_chat_action", action, <<>>, NoneText, NoneMode, FALSE)

\* LootSender.send_reply_text
send_reply_text(text, parse_mode) ==
    Call("send_message", "", <<>>, text, parse_mode, FALSE)

\* LootSender.send_media_group
send_media_group(media_group) ==
    Call("send_media_group", "", media_group, NoneText, NoneMode, TRUE)

loot_action(filetype) ==
    CASE filetype = "video" -> "upload_video"
      [] filetype = "audio" -> "upload_voice"
      [] filetype = "image" -> "upload_photo"
      [] filetype = "text" -> "typing"

loot_send_key(filetype) ==
    CASE filetype = "video" -> "video"
      [] filetype = "audio" -> "audio"
      [] filetype = "image" -> "photo"
      [] filetype = "text" -> "text"

loot_send_func(filetype) ==
    CASE filetype = "video" -> "send_video"
      [] filetype = "audio" -> "send_audio"
      [] filetype = "image" -> "send_photo"
      [] filetype = "text" -> "send_message"

\* LootSender.send_loot_item
send_loot_item(loot_type, loot_item, caption, parse_mode) ==
    Call(loot_send_func(loot_type), "",
         <<Member(loot_send_key(loot_type), loot_item, caption, parse_mode)>>,
         NoneText, NoneMode, TRUE)

\* mutant: a text of exactly max_caption_chars is not a caption
CaptionFitsStrict(text) == Len(text) < max_caption_chars

\* len(text) <= self.max_caption_chars
CaptionFits(text) == Len(text) <= max_caption_chars

\* mutant: a text of exactly collapse_at_chars is not collapsed
ShouldCollapseStrict(txt) == Len(txt) > collapse_at_chars

\* len(txt) >= self.collapse_at_chars
ShouldCollapse(txt) == Len(txt) >= collapse_at_chars

\* one chunk of send_potentially_collapsed_text
send_chunk(txt) ==
    IF ShouldCollapse(txt)
    THEN send_reply_text(str_to_collapsed_quotation_html(txt), "HTML")
    ELSE send_reply_text(txt, NoneMode)

\* mutant: only the first chunk is sent
send_first_chunk_only(text) == <<send_chunk(smart_split(text)[1])>>

\* LootSender.send_potentially_collapsed_text
send_potentially_collapsed_text(text) ==
    LET parts == smart_split(text)
    IN  [i \in 1..Len(parts) |-> send_chunk(parts[i])]

\* mutant: the text is sent as messages also when it is set as the caption
send_loot_items_as_media_group_text_twice(b) ==
    LET InputMedia(type, items) ==
            [i \in 1..Len(items) |-> Member(type, items[i], NoneText, NoneMode)]
        media_group == InputMedia("photo", b.image) \o InputMedia("video", b.video)
                       \o InputMedia("audio", b.audio)
        text == Join(b.text)
        captioned ==
            IF ShouldCollapse(text)
            THEN [media_group EXCEPT ![1].caption = str_to_collapsed_quotation_html(text),
                                     ![1].parse_mode = "HTML"]
            ELSE [media_group EXCEPT ![1].caption = text]
    IN  <<send_action("upload_video")>>
        \o send_potentially_collapsed_text(text)
        \o <<send_action("upload_video")>>
        \o <<send_media_group(IF CaptionFits(text) THEN captioned ELSE media_group)>>

\* LootSender.send_loot_items_as_media_group
send_loot_items_as_media_group(b) ==
    LET InputMedia(type, items) ==
            [i \in 1..Len(items) |-> Member(type, items[i], NoneText, NoneMode)]
        media_group == InputMedia("photo", b.image) \o InputMedia("video", b.video)
                       \o InputMedia("audio", b.audio)
        text == Join(b.text)
        captioned ==
            IF ShouldCollapse(text)
            THEN [media_group EXCEPT ![1].caption = str_to_collapsed_quotation_html(text),
                                     ![1].parse_mode = "HTML"]
            ELSE [media_group EXCEPT ![1].caption = text]
    IN  <<send_action("upload_video")>>
        \o (IF CaptionFits(text) THEN <<>> ELSE send_potentially_collapsed_text(text))
        \o <<send_action("upload_video")>>
        \o <<send_media_group(IF CaptionFits(text) THEN captioned ELSE media_group)>>

\* LootSender.send_loot_items_individually
send_loot_items_individually(b) ==
    LET single == Len(b.video \o b.image \o b.audio) = 1 /\ b.text # <<>>
        text == Join(b.text)
        as_caption == single /\ CaptionFits(text)
        caption == IF ~as_caption THEN NoneText
                   ELSE IF ShouldCollapse(text) THEN str_to_collapsed_quotation_html(text)
                   ELSE text
        parse_mode == IF as_caption /\ ShouldCollapse(text) THEN "HTML" ELSE NoneMode
        texts == IF as_caption THEN <<>> ELSE b.text
        Media(filetype, items) ==
            [i \in 1..(2 * Len(items)) |->
                IF i % 2 = 1 THEN send_action(loot_action(filetype))
                ELSE send_loot_item(filetype, items[i \div 2], caption, parse_mode)]
        RECURSIVE Texts(_)
        Texts(ts) ==
            IF ts = <<>> THEN <<>>
            ELSE <<send_action(loot_action("text"))>>
                 \o send_potentially_collapsed_text(Head(ts)) \o Texts(Tail(ts))
    IN  Media("video", b.video) \o Media("image", b.image)
        \o Texts(texts) \o Media("audio", b.audio)

\* mutant: two items are still sent one by one
UseMediaGroupOverTwo(b) == MediaCount(b) > 2

\* the choice made at the top of the loop of send_potential_media_groups
UseMediaGroup(b) == MediaCount(b) > 1

(***************************************************************************)
(* send_potential_media_groups, one step per batch                         *)
(***************************************************************************)
Files(kind, n) == [i \in 1..n |-> <<kind, i>>]

TextsUpTo(n) == UNION {[1..k -> Chars] : k \in 0..n}

\* loot folders with many media files and short texts
MediaRichLoot ==
    {[video |-> Files("video", nv), image |-> Files("image", ni),
      audio |-> Files("audio", na), text |-> t] :
        nv \in 0..MaxVideo, ni \in 0..MaxImage, na \in 0..MaxAudio,
        t \in {<<>>, << <<>> >>, << <<"a">> >>, << <<"a">>, <<"&", ".">> >>}}

\* loot folders with one text file of any content and few media files
TextRichLoot ==
    {[video |-> Files("video", m[1]), image |-> Files("image", m[2]),
      audio |-> Files("audio", m[3]), text |-> <<t>>] :
        m \in {<<0, 0, 0>>, <<1, 0, 0>>, <<0, 0, 1>>, <<0, 2, 0>>},
        t \in TextsUpTo(MaxTextLen)}

InitDelivery ==
    /\ \/ /\ loot_items \in MediaRichLoot
          /\ max_media_group_members \in 1..MaxGroup
       \/ /\ loot_items \in TextRichLoot
          /\ max_media_group_members = 2
    /\ batches = <<>>
    /\ plans = <<>>
    /\ pc = "collected"

InitDispatchIdle ==
    /\ mentioned = FALSE
    /\ urls_left = 0
    /\ url = [matches |-> {}, probe |-> <<"no_info", "no_info">>, extensions |-> {}]
    /\ handler = "None"
    /\ probes = 0
    /\ invoked = <<>>
    /\ dpc = "idle"
    /\ cookies = FALSE
    /\ probe_retries = 0

BatchLoot ==
    /\ pc = "collected"
    /\ batches' = batch_loot_items(loot_items, max_media_group_members)
    /\ pc' = "sending"
    /\ UNCHANGED <<loot_items, max_media_group_members, plans>>
    /\ UNCHANGED dispatchVars
    /\ UNCHANGED handlerVars
    /\ UNCHANGED partVars

SendAsMediaGroup ==
    /\ pc = "sending"
    /\ Len(plans) < Len(batches)
    /\ UseMediaGroup(batches[Len(plans) + 1])
    /\ plans' = Append(plans, send_loot_items_as_media_group(batches[Len(plans) + 1]))
    /\ UNCHANGED <<loot_items, max_media_group_members, batches, pc>>
    /\ UNCHANGED dispatchVars
    /\ UNCHANGED handlerVars
    /\ UNCHANGED partVars

SendIndividually ==
    /\ pc = "sending"
    /\ Len(plans) < Len(batches)
    /\ ~UseMediaGroup(batches[Len(plans) + 1])
    /\ plans' = Append(plans, send_loot_items_individually(batches[Len(plans) + 1]))
    /\ UNCHANGED <<loot_items, max_media_group_members, batches, pc>>
    /\ UNCHANGED dispatchVars
    /\ UNCHANGED handlerVars
    /\ UNCHANGED partVars

SendDone ==
    /\ pc = "sending"
    /\ Len(plans) = Len(batches)
    /\ pc' = "done"
    /\ UNCHANGED <<loot_items, max_media_group_members, batches, plans>>
    /\ UNCHANGED dispatchVars
    /\ UNCHANGED handlerVars
    /\ UNCHANGED partVars

(***************************************************************************)
(* LinkHandlers: URL classification.  A URL is represented by the set of   *)
(* named patterns its text matches (re.match, case-insensitive), by what   *)
(* extract_info(url, download=False) does for it with and without the      *)
(* cookie file, and by the file extensions of the formats it reports.      *)
(***************************************************************************)
PatternNames == {"tiktok", "x", "bluesky", "insta", "vreddit", "reddit",
                 "youtube", "vimeo", "soundcloud", "bandcamp"}

Extensions == {"mp4", "mp3", "jpg", "mhtml"}

\* <<outcome with the cookie file, outcome without it>>: "info" (formats are
\* reported), "no_info" (a falsy info), "DownloadError", "error" (any other
\* exception, every time)
ProbeBehaviours ==
    {<<"info", "info">>, <<"no_info", "no_info">>,
     <<"DownloadError", "DownloadError">>, <<"DownloadError", "info">>,
     <<"DownloadError", "no_info">>, <<"error", "error">>, <<"DownloadError", "error">>}

\* extensions are reported only where some call gives an info
Urls == {u \in [matches : {ms \in SUBSET PatternNames : Cardinality(ms) <= MaxMatches},
                probe : ProbeBehaviours,
                extensions : SUBSET Extensions] :
            u.extensions # {} => "info" \in {u.probe[1], u.probe[2]}}

\* mimetypes.guess_file_type(f"file.{e}", strict=False)[0], "" when unknown
guess_file_type(e) ==
    CASE e = "mp4" -> "video/mp4"
      [] e = "mp3" -> "audio/mpeg"
      [] e = "jpg" -> "image/jpeg"
      [] OTHER -> ""

\* ft.split('/', 1)[0]
MimeFamily(ft) ==
    CASE ft = "video/mp4" -> "video"
      [] ft = "audio/mpeg" -> "audio"
      [] ft = "image/jpeg" -> "image"

\* LinkHandlers.matches_any
matches_any(u, pattern_names) == u.matches \cap pattern_names # {}

\* what one run of a probe gives: the extensions returned or an exception
\* raised, the extract_info calls made and the retries of retry wrappers
Probed(exts, raised, calls, retries) ==
    [extensions |-> exts, raised |-> raised, calls |-> calls, retries |-> retries]

\* ydl.extract_info(url, download=False) and what follows it, for one outcome
\* of the call, outside the cookie fallback
ExtractOutcome(u, outcome) ==
    CASE outcome = "info" -> Probed(u.extensions, FALSE, 1, 0)
      [] outcome = "no_info" -> Probed({}, FALSE, 1, 0)
      [] outcome = "DownloadError" -> Probed({}, FALSE, 1, 0)
      [] outcome = "error" -> Probed({}, TRUE, 1, 0)

\* @stamina.retry(on=Exception) around a body that behaves the same on every
\* attempt: a raising body is run MaxAttempts times and the exception is
\* raised again
Retried(run) ==
    IF run.raised
    THEN [run EXCEPT !.calls = @ * MaxAttempts,
                     !.retries = @ * MaxAttempts + (MaxAttempts - 1)]
    ELSE run

\* mutant: a DownloadError is not caught in the probe
ytdlp_get_extensions_uncaught(u, has_cookies) ==
    LET first == IF has_cookies THEN u.probe[1] ELSE u.probe[2]
    IN  Retried(ExtractOutcome(u, IF first = "DownloadError" THEN "error" ELSE first))

\* LinkHandlers.ytdlp_get_extensions(url)
ytdlp_get_extensions(u, has_cookies) ==
    LET without == Retried(ExtractOutcome(u, u.probe[2]))
        body == IF has_cookies
                THEN IF u.probe[1] = "DownloadError"
                     THEN [without EXCEPT !.calls = @ + 1]
                     ELSE ExtractOutcome(u, u.probe[1])
                ELSE ExtractOutcome(u, u.probe[2])
    IN  Retried(body)

Chosen(h, n) == [handler |-> h, probes |-> n, retries |-> 0, raised |-> FALSE]

\* LinkHandlers.get_forced_url_handler; one probe is made
get_forced_url_handler(u, has_cookies) ==
    LET probe == ytdlp_get_extensions(u, has_cookies)
        extensions == probe.extensions
        media == {IF guess_file_type(e) # "" THEN MimeFamily(guess_file_type(e)) ELSE e :
                    e \in extensions}
        chosen == IF extensions # {}
                  THEN IF "video" \notin media /\ "audio" \in media
                       THEN Chosen("ytdlp_url_handler_audio", 1)
                       ELSE Chosen("ytdlp_url_handler", 1)
                  ELSE Chosen("gallerydl_url_handler", 1)
    IN  IF probe.raised
        THEN [handler |-> "None", probes |-> 1, retries |-> probe.retries, raised |-> TRUE]
        ELSE [chosen EXCEPT !.retries = probe.retries]

\* mutant: the video families are tested before insta
get_url_handler_video_first(u, has_cookies) ==
    IF matches_any(u, {"tiktok", "vreddit", "youtube", "vimeo"})
    THEN Chosen("ytdlp_url_handler", 0)
    ELSE IF matches_any(u, {"insta"}) THEN Chosen("insta_url_handler", 0)
    ELSE IF matches_any(u, {"x", "reddit", "bluesky"})
         THEN get_forced_url_handler(u, has_cookies)
    ELSE IF matches_any(u, {"soundcloud", "bandcamp"})
         THEN Chosen("ytdlp_url_handler_audio", 0)
    ELSE Chosen("None", 0)

\* LinkHandlers.get_url_handler
get_url_handler(u, has_cookies) ==
    IF matches_any(u, {"insta"}) THEN Chosen("insta_url_handler", 0)
    ELSE IF matches_any(u, {"tiktok", "vreddit", "youtube", "vimeo"})
         THEN Chosen("ytdlp_url_handler", 0)
    ELSE IF matches_any(u, {"x", "reddit", "bluesky"})
         THEN get_forced_url_handler(u, has_cookies)
    ELSE IF matches_any(u, {"soundcloud", "bandcamp"})
         THEN Chosen("ytdlp_url_handler_audio", 0)
    ELSE Chosen("None", 0)

\* mutant: an unmatched URL is resolved by force without a mention
choose_handler_always_forced(u, is_mentioned, has_cookies) ==
    LET first == get_url_handler(u, has_cookies)
    IN  IF first.handler = "None" /\ ~first.raised
        THEN get_forced_url_handler(u, has_cookies)
        ELSE first

\* the handler media_link_handler settles on for one URL (lines 116-118)
choose_handler(u, is_mentioned, has_cookies) ==
    LET first == get_url_handler(u, has_cookies)
    IN  IF first.handler = "None" /\ ~first.raised /\ is_mentioned
        THEN get_forced_url_handler(u, has_cookies)
        ELSE first

(***************************************************************************)
(* LinkHandlers.media_link_handler, one step per URL of the message        *)
(***************************************************************************)
NoUrl == [matches |-> {}, probe |-> <<"no_info", "no_info">>, extensions |-> {}]

InitDeliveryIdle ==
    /\ loot_items = EmptyBatch
    /\ max_media_group_members = 1
    /\ batches = <<>>
    /\ plans = <<>>
    /\ pc = "idle"

\* str.casefold of a user name; a name is its letters and whether it is
\* written with capitals
Casefold(name) == [name EXCEPT !.capitals = FALSE]

BotName == [letters |-> "@mouse_ran_down", capitals |-> FALSE]

\* the entities a message may carry beside its URLs
MentionEntities ==
    {[type |-> t, text |-> [letters |-> l, capitals |-> c]] :
        t \in {"mention", "hashtag"}, l \in {"@mouse_ran_down", "@someone"},
        c \in BOOLEAN}

\* LinkHandlers.bot_mentioned
bot_mentioned(entities) ==
    \E ent \in entities :
        ent.type = "mention" /\ Casefold(ent.text) = Casefold(BotName)

InitDispatch ==
    /\ \E entities \in SUBSET MentionEntities : mentioned = bot_mentioned(entities)
    /\ urls_left \in 0..MaxUrls
    /\ url = NoUrl
    /\ handler = "None"
    /\ probes = 0
    /\ invoked = <<>>
    /\ dpc = "loop"
    /\ cookies \in BOOLEAN
    /\ probe_retries = 0

\* the loop takes the next URL and chooses its handler (lines 114-119)
ChooseHandler ==
    /\ dpc = "loop"
    /\ urls_left > 0
    /\ \E u \in Urls :
        LET chosen == choose_handler(u, mentioned, cookies)
        IN  /\ ~chosen.raised
            /\ url' = u
            /\ handler' = chosen.handler
            /\ probes' = chosen.probes
            /\ probe_retries' = chosen.retries
    /\ urls_left' = urls_left - 1
    /\ dpc' = "chosen"
    /\ UNCHANGED <<mentioned, invoked, cookies>>
    /\ UNCHANGED deliveryVars
    /\ UNCHANGED handlerVars
    /\ UNCHANGED partVars

\* the probe made while choosing raises after its retries: get_url_handler
\* is called outside the try, the exception leaves media_link_handler
ChooseRaises ==
    /\ dpc = "loop"
    /\ urls_left > 0
    /\ \E u \in Urls :
        LET chosen == choose_handler(u, mentioned, cookies)
        IN  /\ chosen.raised
            /\ url' = u
            /\ handler' = chosen.handler
            /\ probes' = chosen.probes
            /\ probe_retries' = chosen.retries
    /\ urls_left' = urls_left - 1
    /\ dpc' = "raised"
    /\ UNCHANGED <<mentioned, invoked, cookies>>
    /\ UNCHANGED deliveryVars
    /\ UNCHANGED handlerVars
    /\ UNCHANGED partVars

\* no handler for this URL: on to the next one
SkipUrl ==
    /\ dpc = "chosen"
    /\ handler = "None"
    /\ url' = NoUrl
    /\ probes' = 0
    /\ probe_retries' = 0
    /\ dpc' = "loop"
    /\ UNCHANGED <<mentioned, urls_left, handler, invoked, cookies>>
    /\ UNCHANGED deliveryVars
    /\ UNCHANGED handlerVars
    /\ UNCHANGED partVars

\* handler(message, url) returns: on to the next URL
HandlerReturns ==
    /\ dpc = "chosen"
    /\ handler # "None"
    /\ invoked' = Append(invoked, [handler |-> handler, result |-> "returned"])
    /\ url' = NoUrl
    /\ handler' = "None"
    /\ probes' = 0
    /\ probe_retries' = 0
    /\ dpc' = "loop"
    /\ UNCHANGED <<mentioned, urls_left, cookies>>
    /\ UNCHANGED deliveryVars
    /\ UNCHANGED handlerVars
    /\ UNCHANGED partVars

\* handler(message, url) raises: logged and re-raised out of media_link_handler
HandlerRaises ==
    /\ dpc = "chosen"
    /\ handler # "None"
    /\ invoked' = Append(invoked, [handler |-> handler, result |-> "raised"])
    /\ dpc' = "raised"
    /\ UNCHANGED <<mentioned, urls_left, url, handler, probes, cookies, probe_retries>>
    /\ UNCHANGED deliveryVars
    /\ UNCHANGED handlerVars
    /\ UNCHANGED partVars

\* no URL is left: media_link_handler returns
LoopDone ==
    /\ dpc = "loop"
    /\ urls_left = 0
    /\ dpc' = "returned"
    /\ UNCHANGED <<mentioned, urls_left, url, handler, probes, invoked, cookies, probe_retries>>
    /\ UNCHANGED deliveryVars
    /\ UNCHANGED handlerVars
    /\ UNCHANGED partVars

(***************************************************************************)
(* The handlers of LinkHandlers, run for one URL.  Every handler is        *)
(* wrapped by stamina.retry(on=Exception); a handler that calls another    *)
(* one calls the wrapped function, so the wrappers nest.  A frame of the   *)
(* stack is one attempt of one handler.                                    *)
(***************************************************************************)
HandlerNames == {"ytdlp_url_handler", "ytdlp_url_handler_audio", "gallerydl_url_handler",
                 "insta_url_handler_instaloader", "insta_url_handler"}

\* the handlers get_url_handler and get_forced_url_handler return
TopHandlers == HandlerNames \ {"insta_url_handler_instaloader"}

HandledUrls == {"url1", "url2"}

ExceptionKinds == {"DownloadError", "Exception"}

\* InstaMedia, as far as instagrapi_downloader reads it
PostInfos ==
    {info \in [media_type : {1, 2, 8, 0}, product_type : {"feed", "igtv", "clips", "story"}] :
        info.media_type # 2 => info.product_type = "feed"}

\* mutant: a video of a product type without a downloader is taken as a feed video
instagrapi_downloader_any_video(info) ==
    CASE info.media_type = 8 -> "album_download"
      [] info.media_type = 1 -> "photo_download"
      [] info.media_type = 2 -> "video_download"
      [] OTHER -> "None"

\* LinkHandlers.instagrapi_downloader, called with self.insta set
instagrapi_downloader(info) ==
    CASE info.media_type = 8 -> "album_download"
      [] info.media_type = 1 -> "photo_download"
      [] info.media_type = 2 /\ info.product_type = "feed" -> "video_download"
      [] info.media_type = 2 /\ info.product_type = "igtv" -> "igtv_download"
      [] info.media_type = 2 /\ info.product_type = "clips" -> "clip_download"
      [] OTHER -> "None"

\* mutant: only download errors are retried
ShouldRetryDownloadErrors(kind) == kind = "DownloadError"

\* stamina.retry(on=Exception): every exception a handler raises is an Exception
ShouldRetry(kind) == kind \in ExceptionKinds

\* one attempt of handler fn, about to run its body
NewFrame(fn, u, attempt, run) ==
    [fn |-> fn, url |-> u, attempt |-> attempt, run |-> run, pc |-> "begin",
     tmp |-> 0, loot |-> 0, sent |-> 0]

Top == stack[Len(stack)]

SetTop(frame) == [stack EXCEPT ![Len(stack)] = frame]

\* mutant: the directory outlives the with block
tempdir_leak(dirs, id) == dirs

\* leaving `with local.tempdir() as tmp`: the directory is deleted
tempdir_exit(dirs, id) ==
    IF id = 0 THEN dirs ELSE [dirs EXCEPT ![id].live = FALSE]

\* a step of the frame reads or writes its directory
tempdir_use(dirs, frame) ==
    [dirs EXCEPT ![frame.tmp].users = @ \cup {<<frame.fn, frame.run>>}]

\* mutant: the loop over the batches ends after its first send
sent_after_return_in_loop(frame) == frame.loot

\* send_potential_media_groups: the loop goes on to the next batch
sent_after(frame) == frame.sent + 1

\* handlers that begin with sender.send_action
BeginsWithAction(fn) ==
    \/ fn \in {"ytdlp_url_handler", "gallerydl_url_handler", "insta_url_handler_instaloader"}
    \/ fn = "insta_url_handler" /\ insta

\* the step after the send_action a handler begins with
AfterAction(fn) ==
    CASE fn = "ytdlp_url_handler" -> "format"
      [] fn = "insta_url_handler" -> "resolve"
      [] OTHER -> "tempdir"

\* the step after the with block is entered
AfterTempdir(fn) ==
    IF fn = "insta_url_handler_instaloader" THEN "shortcode" ELSE "download"

\* the steps of a handler whose exception nothing in the handler catches
RaisingSteps(fn) ==
    CASE fn = "ytdlp_url_handler" -> {"begin", "format", "download", "send"}
      [] fn = "gallerydl_url_handler" -> {"begin", "send"}
      [] fn = "insta_url_handler_instaloader" -> {"begin", "shortcode", "download", "send"}
      [] fn = "insta_url_handler" -> IF insta THEN {"begin", "resolve", "info", "send"} ELSE {}
      [] OTHER -> {}

NoDeliveries == [b \in 1..MaxBatches |-> 0]

NoCalls == [fn \in HandlerNames |-> 0]

InitHandlerIdle ==
    /\ stack = <<>>
    /\ exc = "none"
    /\ result = "idle"
    /\ tmpdirs = <<>>
    /\ deliveries = NoDeliveries
    /\ invocations = NoCalls
    /\ runs = NoCalls
    /\ final_loot = 0
    /\ raised_count = 0
    /\ n_batches = 0
    /\ insta = FALSE
    /\ post_info = [media_type |-> 0, product_type |-> "feed"]

\* media_link_handler is at handler(message, url) (line 122)
InitHandler ==
    /\ handler \in TopHandlers
    /\ cookies \in BOOLEAN
    /\ mentioned = FALSE
    /\ urls_left = 0
    /\ url = NoUrl
    /\ probes = 0
    /\ invoked = <<>>
    /\ dpc = "chosen"
    /\ probe_retries = 0
    /\ \E u \in HandledUrls : stack = <<NewFrame(handler, u, 1, 1)>>
    /\ exc = "none"
    /\ result = "running"
    /\ tmpdirs = <<>>
    /\ deliveries = NoDeliveries
    /\ invocations = [NoCalls EXCEPT ![handler] = 1]
    /\ runs = [NoCalls EXCEPT ![handler] = 1]
    /\ final_loot = 0
    /\ raised_count = 0
    /\ n_batches \in 0..MaxBatches
    /\ insta \in (IF handler = "insta_url_handler" THEN BOOLEAN ELSE {FALSE})
    /\ post_info \in (IF insta THEN PostInfos ELSE {[media_type |-> 0, product_type |-> "feed"]})

handlerConsts == <<n_batches, insta, post_info>>

\* an attempt is running and no exception is on its way
Running == result = "running" /\ stack # <<>> /\ exc = "none"

\* the running frame, left at `caller`, calls the wrapped handler fn with its url
Invoke(fn, caller) ==
    /\ stack' = Append(SetTop(caller), NewFrame(fn, caller.url, 1, runs[fn] + 1))
    /\ invocations' = [invocations EXCEPT ![fn] = @ + 1]
    /\ runs' = [runs EXCEPT ![fn] = @ + 1]

\* sender.send_action at the head of a handler returns
SignalAction ==
    /\ Running
    /\ Top.pc = "begin"
    /\ BeginsWithAction(Top.fn)
    /\ stack' = SetTop([Top EXCEPT !.pc = AfterAction(Top.fn)])
    /\ UNCHANGED <<exc, result, tmpdirs, deliveries, invocations, runs, final_loot, raised_count>>
    /\ UNCHANGED <<handlerConsts, deliveryVars, dispatchVars>>
    /\ UNCHANGED partVars

\* ytdlp_url_handler_audio: self.ytdlp_url_handler(message, url, media_type='audio')
AudioCallsVideo ==
    /\ Running
    /\ Top.fn = "ytdlp_url_handler_audio"
    /\ Top.pc = "begin"
    /\ Invoke("ytdlp_url_handler", [Top EXCEPT !.pc = "called"])
    /\ UNCHANGED <<exc, result, tmpdirs, deliveries, final_loot, raised_count>>
    /\ UNCHANGED <<handlerConsts, deliveryVars, dispatchVars>>
    /\ UNCHANGED partVars

\* insta_url_handler: `if not self.insta` (lines 373-375)
InstaWithoutClient ==
    /\ Running
    /\ Top.fn = "insta_url_handler"
    /\ Top.pc = "begin"
    /\ ~insta
    /\ Invoke("insta_url_handler_instaloader", [Top EXCEPT !.pc = "called"])
    /\ UNCHANGED <<exc, result, tmpdirs, deliveries, final_loot, raised_count>>
    /\ UNCHANGED <<handlerConsts, deliveryVars, dispatchVars>>
    /\ UNCHANGED partVars

\* ytdlp_url_handler: choose_ytdlp_format returns, at once or, with a cookie
\* file, on the second call made after a DownloadError; without a format
\* the download is skipped and only thumbnail and description are written
ChooseFormat ==
    /\ Running
    /\ Top.pc = "format"
    /\ \E media_format \in {"format", "None"}, first \in {"returns", "DownloadError"} :
        /\ first = "DownloadError" => cookies /\ raised_count < MaxFaults
        /\ stack' = SetTop([Top EXCEPT !.pc = "tempdir",
                                       !.loot = IF media_format = "None"
                                                THEN Min(n_batches, 1) ELSE n_batches])
        /\ raised_count' = raised_count + (IF first = "DownloadError" THEN 1 ELSE 0)
    /\ UNCHANGED <<exc, result, tmpdirs, deliveries, invocations, runs, final_loot>>
    /\ UNCHANGED <<handlerConsts, deliveryVars, dispatchVars>>
    /\ UNCHANGED partVars

\* insta_url_handler: self.insta.media_pk_from_url(url) returns
InstaResolve ==
    /\ Running
    /\ Top.pc = "resolve"
    /\ stack' = SetTop([Top EXCEPT !.pc = "info"])
    /\ UNCHANGED <<exc, result, tmpdirs, deliveries, invocations, runs, final_loot, raised_count>>
    /\ UNCHANGED <<handlerConsts, deliveryVars, dispatchVars>>
    /\ UNCHANGED partVars

\* insta_url_handler: self.insta.media_info(post_id) returns
InstaInfo ==
    /\ Running
    /\ Top.pc = "info"
    /\ stack' = SetTop([Top EXCEPT !.pc = "classify"])
    /\ UNCHANGED <<exc, result, tmpdirs, deliveries, invocations, runs, final_loot, raised_count>>
    /\ UNCHANGED <<handlerConsts, deliveryVars, dispatchVars>>
    /\ UNCHANGED partVars

\* insta_url_handler: instagrapi_downloader finds a downloader
InstaKnownType ==
    /\ Running
    /\ Top.pc = "classify"
    /\ instagrapi_downloader(post_info) # "None"
    /\ stack' = SetTop([Top EXCEPT !.pc = "tempdir"])
    /\ UNCHANGED <<exc, result, tmpdirs, deliveries, invocations, runs, final_loot, raised_count>>
    /\ UNCHANGED <<handlerConsts, deliveryVars, dispatchVars>>
    /\ UNCHANGED partVars

\* insta_url_handler: `if not download` (lines 384-387)
InstaUnknownType ==
    /\ Running
    /\ Top.pc = "classify"
    /\ instagrapi_downloader(post_info) = "None"
    /\ Invoke("insta_url_handler_instaloader", [Top EXCEPT !.pc = "called"])
    /\ UNCHANGED <<exc, result, tmpdirs, deliveries, final_loot, raised_count>>
    /\ UNCHANGED <<handlerConsts, deliveryVars, dispatchVars>>
    /\ UNCHANGED partVars

\* `with local.tempdir() as tmp` is entered
MakeTempdir ==
    /\ Running
    /\ Top.pc = "tempdir"
    /\ tmpdirs' = Append(tmpdirs, [owner |-> <<Top.fn, Top.run>>, users |-> {}, live |-> TRUE])
    /\ stack' = SetTop([Top EXCEPT !.tmp = Len(tmpdirs) + 1, !.pc = AfterTempdir(Top.fn)])
    /\ UNCHANGED <<exc, result, deliveries, invocations, runs, final_loot, raised_count>>
    /\ UNCHANGED <<handlerConsts, deliveryVars, dispatchVars>>
    /\ UNCHANGED partVars

\* insta_url_handler_instaloader: Post.from_shortcode returns the post
ShortcodeFound ==
    /\ Running
    /\ Top.pc = "shortcode"
    /\ stack' = SetTop([Top EXCEPT !.pc = "download"])
    /\ UNCHANGED <<exc, result, tmpdirs, deliveries, invocations, runs, final_loot, raised_count>>
    /\ UNCHANGED <<handlerConsts, deliveryVars, dispatchVars>>
    /\ UNCHANGED partVars

\* insta_url_handler_instaloader: BadResponseException or ConnectionException
\* is caught and gallerydl_url_handler is called inside the with block
InstaloaderBadResponse ==
    /\ Running
    /\ Top.pc = "shortcode"
    /\ raised_count < MaxFaults
    /\ Invoke("gallerydl_url_handler", [Top EXCEPT !.pc = "called"])
    /\ raised_count' = raised_count + 1
    /\ UNCHANGED <<exc, result, tmpdirs, deliveries, final_loot>>
    /\ UNCHANGED <<handlerConsts, deliveryVars, dispatchVars>>
    /\ UNCHANGED partVars

\* the download into tmp returns: ydl.download, gallery_dl, download_post
\* or the instagrapi downloader
Download ==
    /\ Running
    /\ Top.pc = "download"
    /\ stack' = SetTop([Top EXCEPT !.pc = "send",
                                   !.loot = IF Top.fn = "ytdlp_url_handler" THEN @
                                            ELSE n_batches])
    /\ tmpdirs' = tempdir_use(tmpdirs, Top)
    /\ UNCHANGED <<exc, result, deliveries, invocations, runs, final_loot, raised_count>>
    /\ UNCHANGED <<handlerConsts, deliveryVars, dispatchVars>>
    /\ UNCHANGED partVars

\* gallerydl_url_handler: ProcessExecutionError is logged and the handler returns
GalleryFails ==
    /\ Running
    /\ Top.fn = "gallerydl_url_handler"
    /\ Top.pc = "download"
    /\ raised_count < MaxFaults
    /\ stack' = SetTop([Top EXCEPT !.pc = "exit"])
    /\ tmpdirs' = tempdir_use(tmpdirs, Top)
    /\ raised_count' = raised_count + 1
    /\ UNCHANGED <<exc, result, deliveries, invocations, runs, final_loot>>
    /\ UNCHANGED <<handlerConsts, deliveryVars, dispatchVars>>
    /\ UNCHANGED partVars

\* insta_url_handler: `except Exception` around download (lines 393-396), the
\* instaloader handler is called inside the with block
InstaDownloadFails ==
    /\ Running
    /\ Top.fn = "insta_url_handler"
    /\ Top.pc = "download"
    /\ raised_count < MaxFaults
    /\ Invoke("insta_url_handler_instaloader", [Top EXCEPT !.pc = "called"])
    /\ tmpdirs' = tempdir_use(tmpdirs, Top)
    /\ raised_count' = raised_count + 1
    /\ UNCHANGED <<exc, result, deliveries, final_loot>>
    /\ UNCHANGED <<handlerConsts, deliveryVars, dispatchVars>>
    /\ UNCHANGED partVars

\* send_potential_media_groups sends the next batch of the folder
SendBatch ==
    /\ Running
    /\ Top.pc = "send"
    /\ Top.sent < Top.loot
    /\ deliveries' = [deliveries EXCEPT ![Top.sent + 1] = @ + 1]
    /\ stack' = SetTop([Top EXCEPT !.sent = sent_after(Top)])
    /\ tmpdirs' = tempdir_use(tmpdirs, Top)
    /\ UNCHANGED <<exc, result, invocations, runs, final_loot, raised_count>>
    /\ UNCHANGED <<handlerConsts, deliveryVars, dispatchVars>>
    /\ UNCHANGED partVars

\* the step the frame is at raises an exception the handler does not catch
StepRaises ==
    /\ Running
    /\ Top.pc \in RaisingSteps(Top.fn)
    /\ Top.pc = "send" => Top.sent < Top.loot
    /\ raised_count < MaxFaults
    /\ \E kind \in ExceptionKinds : exc' = kind
    /\ raised_count' = raised_count + 1
    /\ UNCHANGED <<stack, result, tmpdirs, deliveries, invocations, runs, final_loot>>
    /\ UNCHANGED <<handlerConsts, deliveryVars, dispatchVars>>
    /\ UNCHANGED partVars

\* the body of the running handler ends: its with block is left and the
\* caller, if any, goes on after the call, where it returns as well
ReturnFrame ==
    /\ Running
    /\ Top.pc = "exit" \/ (Top.pc = "send" /\ Top.sent >= Top.loot)
    /\ tmpdirs' = tempdir_exit(tmpdirs, Top.tmp)
    /\ final_loot' = IF Top.pc = "send" THEN Top.loot ELSE final_loot
    /\ IF Len(stack) = 1
       THEN stack' = <<>> /\ result' = "returned"
       ELSE /\ stack' = [SubSeq(stack, 1, Len(stack) - 1) EXCEPT ![Len(stack) - 1].pc = "exit"]
            /\ result' = result
    /\ UNCHANGED <<exc, deliveries, invocations, runs, raised_count>>
    /\ UNCHANGED <<handlerConsts, deliveryVars, dispatchVars>>
    /\ UNCHANGED partVars

\* the exception leaves the body of the running handler: its with block is
\* left and the retry wrapper runs the body again
RetryAttempt ==
    /\ result = "running"
    /\ stack # <<>>
    /\ exc # "none"
    /\ ShouldRetry(exc)
    /\ Top.attempt < MaxAttempts
    /\ tmpdirs' = tempdir_exit(tmpdirs, Top.tmp)
    /\ stack' = SetTop(NewFrame(Top.fn, Top.url, Top.attempt + 1, runs[Top.fn] + 1))
    /\ runs' = [runs EXCEPT ![Top.fn] = @ + 1]
    /\ exc' = "none"
    /\ UNCHANGED <<result, deliveries, invocations, final_loot, raised_count>>
    /\ UNCHANGED <<handlerConsts, deliveryVars, dispatchVars>>
    /\ UNCHANGED partVars

\* the retry wrapper gives up and raises the exception to the caller of the
\* handler: the calling handler, or media_link_handler
GiveUp ==
    /\ result = "running"
    /\ stack # <<>>
    /\ exc # "none"
    /\ ~(ShouldRetry(exc) /\ Top.attempt < MaxAttempts)
    /\ tmpdirs' = tempdir_exit(tmpdirs, Top.tmp)
    /\ stack' = SubSeq(stack, 1, Len(stack) - 1)
    /\ result' = IF Len(stack) = 1 THEN "raised" ELSE result
    /\ UNCHANGED <<exc, deliveries, invocations, runs, final_loot, raised_count>>
    /\ UNCHANGED <<handlerConsts, deliveryVars, dispatchVars>>
    /\ UNCHANGED partVars

(***************************************************************************)
(* LootSender.path_is_type and the collection of the loot folder at the    *)
(* head of send_potential_media_groups.  A file is its suffix and what      *)
(* mimetypes.guess_file_type(path, strict=False) returns for it, "" for     *)
(* None; what is returned for .mkv depends on the Python version and on     *)
(* the mime.types files of the system.  A MIME type is its family, the      *)
(* part before the slash: no family has another family as a prefix, so      *)
(* filetype.startswith(typestr) is equality of families.                    *)
(***************************************************************************)
LootTypes == <<"video", "audio", "image", "text">>

LootFiles ==
    {[suffix |-> ".mp4", guessed |-> "video"], [suffix |-> ".jpg", guessed |-> "image"],
     [suffix |-> ".mp3", guessed |-> "audio"], [suffix |-> ".txt", guessed |-> "text"],
     [suffix |-> ".description", guessed |-> ""],
     [suffix |-> ".mkv", guessed |-> ""], [suffix |-> ".mkv", guessed |-> "video"],
     [suffix |-> ".json", guessed |-> "application"],
     [suffix |-> ".part", guessed |-> ""]}

\* LootSender.path_is_type: the value returned and whether the file was logged
path_is_type(path, typestr) ==
    LET filetype == IF path.guessed = "" /\ path.suffix = ".description" THEN "text"
                    ELSE path.guessed
    IN  IF filetype # "" THEN [is_type |-> filetype = typestr, logged |-> FALSE]
        ELSE [is_type |-> FALSE, logged |-> TRUE]

NothingFound == [t \in {"video", "audio", "image", "text"} |-> {}]

InitClassifyIdle ==
    /\ folder = {}
    /\ passes = 0
    /\ found = NothingFound
    /\ unidentified = {}

\* send_potential_media_groups is entered with a loot folder
InitClassify ==
    /\ folder \in {fs \in SUBSET LootFiles : Cardinality(fs) <= MaxFiles}
    /\ passes = 0
    /\ found = NothingFound
    /\ unidentified = {}

\* one round of `for filetype in ('video', 'audio', 'image', 'text')`
CollectFiletype ==
    /\ passes < Len(LootTypes)
    /\ LET filetype == LootTypes[passes + 1]
       IN  /\ found' = [found EXCEPT ![filetype] =
                            {p \in folder : path_is_type(p, filetype).is_type}]
           /\ unidentified' = unidentified \cup
                  {<<p, filetype>> : p \in {q \in folder : path_is_type(q, filetype).logged}}
    /\ passes' = passes + 1
    /\ UNCHANGED folder
    /\ UNCHANGED <<deliveryVars, dispatchVars, handlerVars, botVars, formatVars, galleryVars>>

\* the loot is collected: batch_loot_items is called next
CollectDone ==
    /\ passes = Len(LootTypes)
    /\ passes' = Len(LootTypes) + 1
    /\ UNCHANGED <<folder, found, unidentified>>
    /\ UNCHANGED <<deliveryVars, dispatchVars, handlerVars, botVars, formatVars, galleryVars>>

(***************************************************************************)
(* gallerydl_url_handler: the info.txt files written from the info.json    *)
(* files (lines 309-314).  An info.json is the set of the keys it has; the *)
(* value of key k of the j-th info.json is the text fragment <<j, k>>.      *)
(***************************************************************************)
InfoKeys == <<"title", "content", "selftext">>

InfoJsons == SUBSET {"title", "content", "selftext"}

\* `for key in (...): with suppress(KeyError): texts.append(load(json)[key])`
AppendTexts(texts, json, j) ==
    texts \o SelectSeq([k \in 1..Len(InfoKeys) |-> <<j, InfoKeys[k]>>],
                       LAMBDA frag : frag[2] \in json)

InitGalleryIdle ==
    /\ g_jsons = <<>>
    /\ g_pos = 0
    /\ g_texts = <<>>
    /\ g_info_txt = <<>>

\* gallery_dl has returned; `texts = []`
InitGallery ==
    /\ g_jsons \in UNION {[1..n -> InfoJsons] : n \in 0..MaxJsons}
    /\ g_pos = 0
    /\ g_texts = <<>>
    /\ g_info_txt = <<>>

\* one round of `for json in tmp.walk(...)`: texts grows, info.txt is written
WriteInfoTxt ==
    /\ g_pos < Len(g_jsons)
    /\ g_pos' = g_pos + 1
    /\ g_texts' = AppendTexts(g_texts, g_jsons[g_pos + 1], g_pos + 1)
    /\ g_info_txt' = Append(g_info_txt, g_texts')
    /\ UNCHANGED g_jsons
    /\ UNCHANGED <<deliveryVars, dispatchVars, handlerVars, classifyVars, botVars, formatVars>>

\* the walk is over: send_potential_media_groups is called next
WalkDone ==
    /\ g_pos = Len(g_jsons)
    /\ g_pos' = Len(g_jsons) + 1
    /\ UNCHANGED <<g_jsons, g_texts, g_info_txt>>
    /\ UNCHANGED <<deliveryVars, dispatchVars, handlerVars, classifyVars, botVars, formatVars>>

(***************************************************************************)
(* main: the bot is made by TeleBot(config['TOKEN']) and run by            *)
(* infinity_polling.  With no further argument TeleBot is threaded with a  *)
(* pool of two worker threads: the polling thread puts each message of an  *)
(* update to the pool and a free worker runs the message handler for it.   *)
(***************************************************************************)
threaded == TRUE

num_threads == 2

Messages == 1..MaxMessages

InitBotIdle ==
    /\ tasks = <<>>
    /\ workers = [w \in 1..num_threads |-> 0]
    /\ handled = [m \in Messages |-> "idle"]
    /\ received = 0

\* bot.infinity_polling is running, no message has come in yet
InitBot ==
    /\ tasks = <<>>
    /\ workers = [w \in 1..num_threads |-> 0]
    /\ handled = [m \in Messages |-> "none"]
    /\ received = 0

\* the polling receives a message and hands it over: to the worker pool if
\* the bot is threaded, else it runs the handler itself once it is free
ReceiveMessage ==
    /\ received < MaxMessages
    /\ ~threaded => \A w \in 1..num_threads : workers[w] = 0
    /\ received' = received + 1
    /\ tasks' = Append(tasks, received + 1)
    /\ UNCHANGED <<workers, handled>>
    /\ UNCHANGED <<deliveryVars, dispatchVars, handlerVars, classifyVars, formatVars, galleryVars>>

\* a free worker takes the next message and calls media_link_handler(message)
StartHandler ==
    /\ tasks # <<>>
    /\ \E w \in 1..(IF threaded THEN num_threads ELSE 1) :
        /\ workers[w] = 0
        /\ ~threaded => \A v \in 1..num_threads : workers[v] = 0
        /\ workers' = [workers EXCEPT ![w] = Head(tasks)]
    /\ tasks' = Tail(tasks)
    /\ handled' = [handled EXCEPT ![Head(tasks)] = "running"]
    /\ UNCHANGED received
    /\ UNCHANGED <<deliveryVars, dispatchVars, handlerVars, classifyVars, formatVars, galleryVars>>

\* media_link_handler returns, or raises, for the message of a worker
EndHandler ==
    /\ \E w \in 1..num_threads, outcome \in {"returned", "raised"} :
        /\ workers[w] # 0
        /\ handled' = [handled EXCEPT ![workers[w]] = outcome]
        /\ workers' = [workers EXCEPT ![w] = 0]
    /\ UNCHANGED <<tasks, received>>
    /\ UNCHANGED <<deliveryVars, dispatchVars, handlerVars, classifyVars, formatVars, galleryVars>>

(***************************************************************************)
(* LinkHandlers.choose_ytdlp_format and ytdlp_estimate_bytes.  A format    *)
(* is named by the height put into the template, None by 0.  A candidate   *)
(* is its filesize, filesize_approx and tbr, 0 for a missing or zero key.  *)
(***************************************************************************)
max_megabytes == 50

max_height == 1080

Ladder == <<1080, 720, 540, 480>>

\* what extract_info returns: nothing, or an info with its duration (0 for
\* a missing duration)
NoInfo == [present |-> FALSE, duration |-> 0]

Infos == {NoInfo} \cup {[present |-> TRUE, duration |-> d] : d \in {0, 1000}}

Candidates ==
    [filesize : {0, 49999999, 50000000}, filesize_approx : {0, 49999999, 50000000},
     tbr : {0, 399, 400}]

\* LinkHandlers.ytdlp_estimate_bytes, 0 for None
ytdlp_estimate_bytes(format_candidate, duration) ==
    IF format_candidate.filesize # 0 THEN format_candidate.filesize
    ELSE IF format_candidate.filesize_approx # 0 THEN format_candidate.filesize_approx
    ELSE IF format_candidate.tbr # 0 /\ duration # 0
         THEN (duration * format_candidate.tbr * 1000) \div 8
    ELSE 0

\* estimated_bytes / 10**6 < self.max_megabytes
FitsUpload(estimated_bytes) == estimated_bytes < max_megabytes * 1000000

\* heights.remove(height), for a height that is in the list
Removed(heights, height) == SelectSeq(heights, LAMBDA h : h # height)

InSeq(x, seq) == \E k \in 1..Len(seq) : seq[k] = x

NothingSeen == [h \in {Ladder[k] : k \in 1..Len(Ladder)} |-> {}]

InitFormatIdle ==
    /\ f_pc = "idle"
    /\ f_info = NoInfo
    /\ f_heights = <<>>
    /\ f_height = 0
    /\ f_count = 0
    /\ f_seen = NothingSeen
    /\ f_format = 0

\* choose_ytdlp_format(url) is entered: heights is the ladder up to max_height
InitFormat ==
    /\ f_pc = "extract"
    /\ f_info = NoInfo
    /\ f_heights = IF SelectSeq(Ladder, LAMBDA h : h <= max_height) # <<>>
                   THEN SelectSeq(Ladder, LAMBDA h : h <= max_height)
                   ELSE <<max_height>>
    /\ f_height = 0
    /\ f_count = 0
    /\ f_seen = NothingSeen
    /\ f_format = 0

\* the loop over tuple(heights) goes to the next height, or ends and the
\* function returns heights[0], or None when heights is empty
NextHeight ==
    IF f_height < Len(Ladder)
    THEN /\ f_height' = f_height + 1
         /\ f_count' = 0
         /\ UNCHANGED <<f_pc, f_format>>
    ELSE /\ f_pc' = "returned"
         /\ f_format' = IF f_heights' # <<>> THEN f_heights'[1] ELSE 0
         /\ UNCHANGED <<f_height, f_count>>

\* ydl.extract_info(url, download=False) returns
ExtractInfo ==
    /\ f_pc = "extract"
    /\ \E info \in Infos :
        /\ f_info' = info
        /\ IF ~info.present
           THEN f_pc' = "returned" /\ f_height' = f_height
           ELSE f_pc' = "candidates" /\ f_height' = 1
    /\ UNCHANGED <<f_heights, f_count, f_seen, f_format>>
    /\ UNCHANGED <<deliveryVars, dispatchVars, handlerVars, classifyVars, botVars, galleryVars>>

\* next(candidate_gen) yields a candidate
TakeCandidate ==
    /\ f_pc = "candidates"
    /\ f_count < MaxCandidates
    /\ \E candidate \in Candidates :
        LET height == Ladder[f_height]
            estimated_bytes == ytdlp_estimate_bytes(candidate, f_info.duration)
        IN  IF estimated_bytes = 0
            THEN /\ f_seen' = [f_seen EXCEPT ![height] = @ \cup {"unknown"}]
                 /\ f_count' = f_count + 1
                 /\ UNCHANGED <<f_pc, f_heights, f_format>>
            ELSE IF FitsUpload(estimated_bytes)
            THEN /\ f_seen' = [f_seen EXCEPT ![height] = @ \cup {"small"}]
                 /\ f_pc' = "returned"
                 /\ f_format' = height
                 /\ UNCHANGED <<f_heights, f_count>>
            ELSE /\ f_seen' = [f_seen EXCEPT ![height] = @ \cup {"big"}]
                 /\ f_count' = f_count + 1
                 /\ IF InSeq(height, f_heights)
                    THEN f_heights' = Removed(f_heights, height) /\ f_pc' = f_pc
                    ELSE f_heights' = f_heights /\ f_pc' = "raised"
                 /\ UNCHANGED f_format
    /\ UNCHANGED <<f_info, f_height>>
    /\ UNCHANGED <<deliveryVars, dispatchVars, handlerVars, classifyVars, botVars, galleryVars>>

\* next(candidate_gen) raises StopIteration: break
NoMoreCandidates ==
    /\ f_pc = "candidates"
    /\ UNCHANGED <<f_info, f_heights, f_seen>>
    /\ NextHeight
    /\ UNCHANGED <<deliveryVars, dispatchVars, handlerVars, classifyVars, botVars, galleryVars>>

\* next(candidate_gen) raises KeyError: logged, `continue`; the generator
\* has ended with the exception, so the next call raises StopIteration
SelectorKeyError ==
    /\ f_pc = "candidates"
    /\ f_seen' = [f_seen EXCEPT ![Ladder[f_height]] = @ \cup {"KeyError"}]
    /\ UNCHANGED <<f_info, f_heights>>
    /\ NextHeight
    /\ UNCHANGED <<deliveryVars, dispatchVars, handlerVars, classifyVars, botVars, galleryVars>>

InitPartsIdle == InitClassifyIdle /\ InitBotIdle /\ InitFormatIdle /\ InitGalleryIdle

(***************************************************************************)
(* Specifications                                                          *)
(***************************************************************************)
Init == InitDelivery /\ InitDispatchIdle /\ InitHandlerIdle /\ InitPartsIdle

Next == BatchLoot \/ SendAsMediaGroup \/ SendIndividually \/ SendDone

\* delivery of one loot folder
Spec == Init /\ [][Next]_vars

InitD == InitDispatch /\ InitDeliveryIdle /\ InitHandlerIdle /\ InitPartsIdle

NextD == ChooseHandler \/ ChooseRaises \/ SkipUrl \/ HandlerReturns \/ HandlerRaises \/ LoopDone

\* dispatch of the URLs of one message
SpecDispatch == InitD /\ [][NextD]_vars

InitH == InitHandler /\ InitDeliveryIdle /\ InitPartsIdle

NextH ==
    \/ SignalAction \/ AudioCallsVideo \/ InstaWithoutClient \/ ChooseFormat
    \/ InstaResolve \/ InstaInfo \/ InstaKnownType \/ InstaUnknownType
    \/ MakeTempdir \/ ShortcodeFound \/ InstaloaderBadResponse \/ Download
    \/ GalleryFails \/ InstaDownloadFails \/ SendBatch \/ StepRaises
    \/ ReturnFrame \/ RetryAttempt \/ GiveUp

\* one handler call made by media_link_handler, with its retries and fallbacks
SpecHandler == InitH /\ [][NextH]_vars

InitC == InitClassify /\ InitBotIdle /\ InitFormatIdle /\ InitGalleryIdle
         /\ InitDeliveryIdle /\ InitDispatchIdle /\ InitHandlerIdle

NextC == CollectFiletype \/ CollectDone

\* the collection of one loot folder
SpecClassify == InitC /\ [][NextC]_vars

InitB == InitBot /\ InitClassifyIdle /\ InitFormatIdle /\ InitGalleryIdle
         /\ InitDeliveryIdle /\ InitDispatchIdle /\ InitHandlerIdle

NextB == ReceiveMessage \/ StartHandler \/ EndHandler

\* the bot while it polls
SpecBot == InitB /\ [][NextB]_vars

InitF == InitFormat /\ InitClassifyIdle /\ InitBotIdle /\ InitGalleryIdle
         /\ InitDeliveryIdle /\ InitDispatchIdle /\ InitHandlerIdle

NextF == ExtractInfo \/ TakeCandidate \/ NoMoreCandidates \/ SelectorKeyError

\* one call of choose_ytdlp_format
SpecFormat == InitF /\ [][NextF]_vars

InitG == InitGallery /\ InitClassifyIdle /\ InitBotIdle /\ InitFormatIdle
         /\ InitDeliveryIdle /\ InitDispatchIdle /\ InitHandlerIdle

NextG == WriteInfoTxt \/ WalkDone

\* the texts gallerydl_url_handler writes after one download
SpecGallery == InitG /\ [][NextG]_vars

(***************************************************************************)
(* Properties of batch_loot_items                                          *)
(***************************************************************************)
Batched_ == pc \in {"sending", "done"}

CeilDiv(a, b) == (a + b - 1) \div b

RECURSIVE Flat(_, _)
\* the items of one kind over all batches, in batch order
Flat(bs, kind) == IF bs = <<>> THEN <<>> ELSE Head(bs)[kind] \o Flat(Tail(bs), kind)

InputMedia_ == loot_items.video \o loot_items.image

\* C1: every produced batch holds at most max_media_group_members media
\* items (video + image + audio), whatever the loot and the configured size.
C1_BatchSize ==
    Batched_ =>
        \A i \in 1..Len(batches) : MediaCount(batches[i]) <= max_media_group_members

\* C1 witness: more media than one group holds, and a full batch was produced
C1_Witness ==
    /\ Batched_
    /\ Len(InputMedia_) > max_media_group_members
    /\ max_media_group_members > 1
    /\ \E i \in 1..Len(batches) : MediaCount(batches[i]) = max_media_group_members

\* C2: no produced batch holds audio together with video or image.
C2_TypeSeparation ==
    Batched_ =>
        \A i \in 1..Len(batches) :
            Len(batches[i].audio) > 0 =>
                Len(batches[i].video) = 0 /\ Len(batches[i].image) = 0

\* C2 witness: the loot has audio, video and image, and batches of both sorts exist
C2_Witness ==
    /\ Batched_
    /\ loot_items.audio # <<>> /\ loot_items.video # <<>> /\ loot_items.image # <<>>
    /\ \E i, j \in 1..Len(batches) :
        Len(batches[i].audio) > 0 /\ Len(batches[j].video) + Len(batches[j].image) > 0

\* C3: the media items of all batches are exactly the input items, each
\* under its own kind, none lost and none duplicated; when the input has
\* text, the batches carry its whole concatenation.
C3_Completeness ==
    Batched_ =>
        /\ Flat(batches, "video") = loot_items.video
        /\ Flat(batches, "image") = loot_items.image
        /\ Flat(batches, "audio") = loot_items.audio
        /\ loot_items.text # <<>> =>
               Join(Flat(batches, "text")) = Join(loot_items.text)

\* C3 witness: several batches made from a loot with every kind and text
C3_Witness ==
    /\ Batched_
    /\ Len(batches) >= 3
    /\ Len(loot_items.audio) > max_media_group_members
    /\ loot_items.video # <<>> /\ loot_items.image # <<>>
    /\ Len(loot_items.text) = 2

\* C4: the video-then-image list is cut into ceil(n/M) consecutive chunks,
\* in input order, each but the last of exactly M items; the audio items
\* are cut the same way into batches of their own that come after them.
C4_Chunks ==
    LET M == max_media_group_members
        n == Len(InputMedia_)
        k == CeilDiv(n, M)
        na == Len(loot_items.audio)
        ka == CeilDiv(na, M)
    IN  Batched_ =>
            /\ k + ka > 0 => Len(batches) = k + ka
            /\ \A i \in 1..k :
                /\ batches[i].video \o batches[i].image
                       = SubSeq(InputMedia_, (i - 1) * M + 1, Min(i * M, n))
                /\ batches[i].audio = <<>>
                /\ i < k => MediaCount(batches[i]) = M
            /\ \A j \in 1..ka :
                /\ batches[k + j].audio
                       = SubSeq(loot_items.audio, (j - 1) * M + 1, Min(j * M, na))
                /\ batches[k + j].video = <<>> /\ batches[k + j].image = <<>>
                /\ j < ka => MediaCount(batches[k + j]) = M

\* C4 witness: 12 images with groups of 10 give a batch of 10 and one of 2
C4_Witness ==
    /\ Batched_
    /\ max_media_group_members = 10
    /\ Len(loot_items.image) = 12 /\ loot_items.video = <<>> /\ loot_items.audio = <<>>
    /\ Len(batches) = 2
    /\ Len(batches[1].image) = 10 /\ Len(batches[2].image) = 2

RECURSIVE BlankLineJoined(_)
\* the texts with an empty line between neighbours
BlankLineJoined(texts) ==
    IF Len(texts) = 0 THEN <<>>
    ELSE IF Len(texts) = 1 THEN texts[1]
    ELSE BlankLineJoined(SubSeq(texts, 1, Len(texts) - 1))
         \o <<"\n">> \o <<"\n">> \o texts[Len(texts)]

\* C5: the text items, joined with a blank line, are on the first batch and
\* on no later one; text without media gives exactly one batch without
\* media; neither text nor media gives no batch.
C5_Text ==
    Batched_ =>
        /\ batches # <<>> => batches[1].text = <<BlankLineJoined(loot_items.text)>>
        /\ \A i \in 2..Len(batches) : batches[i].text = <<>>
        /\ (InputMedia_ = <<>> /\ loot_items.audio = <<>> /\ loot_items.text # <<>>)
               => Len(batches) = 1 /\ MediaCount(batches[1]) = 0
        /\ (InputMedia_ = <<>> /\ loot_items.audio = <<>> /\ loot_items.text = <<>>)
               => batches = <<>>

\* C5 witness: two text items and at least two batches
C5_Witness ==
    /\ Batched_
    /\ Len(loot_items.text) = 2
    /\ Len(batches) >= 2
    /\ batches[1].text = << <<"a", "\n", "\n", "&", ".">> >>

(***************************************************************************)
(* Properties of the delivery of one batch                                 *)
(***************************************************************************)
MediaOps == {"send_video", "send_photo", "send_audio"}

Count(calls, ops) == Len(SelectSeq(calls, LAMBDA c : c.op \in ops))

\* the calls of a plan other than chat actions
Sends(calls) == SelectSeq(calls, LAMBDA c : c.op # "send_chat_action")

IsWrapped(t) == Len(t) >= 2 /\ t[1] = OpenTag /\ t[Len(t)] = CloseTag

RECURSIVE Unescaped(_)
\* the text an HTML parser reads from an escaped text
Unescaped(t) ==
    IF t = <<>> THEN <<>>
    ELSE IF Len(t) >= 5 /\ SubSeq(t, 1, 5) = <<"&", "a", "m", "p", ";">>
         THEN <<"&">> \o Unescaped(SubSeq(t, 6, Len(t)))
    ELSE IF Len(t) >= 4 /\ SubSeq(t, 1, 4) = <<"&", "l", "t", ";">>
         THEN <<"<">> \o Unescaped(SubSeq(t, 5, Len(t)))
    ELSE IF Len(t) >= 4 /\ SubSeq(t, 1, 4) = <<"&", "g", "t", ";">>
         THEN <<">">> \o Unescaped(SubSeq(t, 5, Len(t)))
    ELSE <<Head(t)>> \o Unescaped(Tail(t))

\* a sent text with the collapsible-block wrapper removed
Unwrapped(t) == IF IsWrapped(t) THEN Unescaped(SubSeq(t, 2, Len(t) - 1)) ELSE t

RECURSIVE MessageTexts(_)
\* the unwrapped texts of the text messages of a plan, concatenated in send order
MessageTexts(calls) ==
    IF calls = <<>> THEN <<>>
    ELSE (IF Head(calls).op = "send_message" THEN Unwrapped(Head(calls).text) ELSE <<>>)
         \o MessageTexts(Tail(calls))

\* every media member of every call of a plan has no caption
NoCaption(calls) ==
    \A i \in 1..Len(calls) : \A j \in 1..Len(calls[i].media) :
        calls[i].media[j].caption = NoneText

\* C6: a batch of two or more media items is delivered by exactly one
\* grouped-media call holding all of them and no individual media call; a
\* smaller batch by individual sends only, one per item.
C6_GroupOrIndividual ==
    \A i \in 1..Len(plans) :
        IF MediaCount(batches[i]) >= 2
        THEN /\ Count(plans[i], {"send_media_group"}) = 1
             /\ Count(plans[i], MediaOps) = 0
             /\ \A k \in 1..Len(plans[i]) :
                    plans[i][k].op = "send_media_group"
                        => Len(plans[i][k].media) = MediaCount(batches[i])
        ELSE /\ Count(plans[i], {"send_media_group"}) = 0
             /\ Count(plans[i], MediaOps) = MediaCount(batches[i])

\* C6 witness: 3 images and 1 video without text, one batch, one grouped send
C6_Witness ==
    /\ Len(loot_items.image) = 3 /\ Len(loot_items.video) = 1
    /\ loot_items.audio = <<>> /\ loot_items.text = <<>>
    /\ Len(batches) = 1 /\ Len(plans) = 1
    /\ Count(plans[1], {"send_media_group"}) = 1
    /\ Count(plans[1], MediaOps) = 0

\* C7: a batch of exactly one media item whose text fits the caption
\* ceiling is delivered as a single media send that carries the text as its
\* caption, and no text message is sent for it.
C7_SingleCaption ==
    \A i \in 1..Len(plans) :
        LET b == batches[i]
            text == BlankLineJoined(b.text)
            sends == Sends(plans[i])
        IN  (MediaCount(b) = 1 /\ b.text # <<>> /\ Len(text) <= max_caption_chars) =>
                /\ Len(sends) = 1
                /\ sends[1].op \in MediaOps
                /\ Len(sends[1].media) = 1
                /\ sends[1].media[1].caption # NoneText
                /\ Unwrapped(sends[1].media[1].caption) = text
                /\ Count(plans[i], {"send_message"}) = 0

\* C7 witness: one video with a text of exactly the caption ceiling, sent as caption
C7_Witness ==
    /\ Len(plans) = 1
    /\ Len(batches[1].video) = 1 /\ MediaCount(batches[1]) = 1
    /\ Len(BlankLineJoined(batches[1].text)) = max_caption_chars
    /\ "&" \in {batches[1].text[1][k] : k \in 1..Len(batches[1].text[1])}
    /\ Count(plans[1], {"send_video"}) = 1

\* C8: when the text of a batch is longer than the caption ceiling, no
\* media of the batch carries a caption and the text goes out as one or
\* more text messages which, unwrapped, concatenate in send order to the text.
C8_LongText ==
    \A i \in 1..Len(plans) :
        LET text == BlankLineJoined(batches[i].text)
        IN  Len(text) > max_caption_chars =>
                /\ NoCaption(plans[i])
                /\ Count(plans[i], {"send_message"}) >= 1
                /\ MessageTexts(plans[i]) = text

\* C8 witness: a long text with "&" split into two messages beside a media send
C8_Witness ==
    \E i \in 1..Len(plans) :
        /\ Len(BlankLineJoined(batches[i].text)) > max_caption_chars
        /\ "&" \in {batches[i].text[1][k] : k \in 1..Len(batches[i].text[1])}
        /\ Count(plans[i], {"send_message"}) >= 2
        /\ Count(plans[i], MediaOps \cup {"send_media_group"}) >= 1

\* the caption and parse mode pairs and the message text and parse mode
\* pairs of a plan
SentTexts(calls) ==
    {<<calls[i].text, calls[i].parse_mode>> :
        i \in {k \in 1..Len(calls) : calls[k].op = "send_message"}}
    \cup UNION {{<<calls[i].media[j].caption, calls[i].media[j].parse_mode>> :
                    j \in {l \in 1..Len(calls[i].media) :
                              calls[i].media[l].caption # NoneText}} :
                i \in 1..Len(calls)}

\* C9: a caption or text chunk of collapse_at_chars or more characters is
\* sent wrapped as an expandable quotation with parse mode HTML, a shorter
\* one unwrapped with no parse mode; each chunk of a split text on its own.
C9_Collapse ==
    \A i \in 1..Len(plans) : \A st \in SentTexts(plans[i]) :
        LET t == st[1]
            mode == st[2]
        IN  IF Len(Unwrapped(t)) >= collapse_at_chars
            THEN /\ mode = "HTML"
                 /\ t = <<OpenTag>> \o escape_html(Unwrapped(t)) \o <<CloseTag>>
            ELSE /\ mode = NoneMode
                 /\ ~IsWrapped(t)

\* C9 witness: a split text with one collapsed chunk and one plain chunk
C9_Witness ==
    \E i \in 1..Len(plans) :
        /\ Count(plans[i], {"send_message"}) >= 2
        /\ \E c, d \in 1..Len(plans[i]) :
            /\ plans[i][c].op = "send_message" /\ plans[i][c].parse_mode = "HTML"
            /\ plans[i][d].op = "send_message" /\ plans[i][d].parse_mode = NoneMode
            /\ plans[i][d].text # <<>>

(***************************************************************************)
(* Properties of the dispatcher                                            *)
(***************************************************************************)
Rule1 == {"insta"}
Rule2 == {"tiktok", "vreddit", "youtube", "vimeo"}
Rule3 == {"x", "reddit", "bluesky"}
Rule4 == {"soundcloud", "bandcamp"}

Hits(names) == url.matches \cap names # {}

\* C10: the rules are applied in the order insta, unambiguous video,
\* ambiguous (probed), audio hosting, none, and the first rule that matches
\* decides: an insta URL always gets the insta handler whatever else it
\* matches, and only a URL decided by the ambiguous rule is probed.
C10_RuleOrder ==
    dpc = "chosen" =>
        /\ Hits(Rule1) => handler = "insta_url_handler" /\ probes = 0
        /\ (~Hits(Rule1) /\ Hits(Rule2)) => handler = "ytdlp_url_handler" /\ probes = 0
        /\ (~Hits(Rule1) /\ ~Hits(Rule2) /\ Hits(Rule3)) =>
               /\ probes = 1
               /\ handler \in {"ytdlp_url_handler", "ytdlp_url_handler_audio",
                               "gallerydl_url_handler"}
        /\ (~Hits(Rule1) /\ ~Hits(Rule2) /\ ~Hits(Rule3) /\ Hits(Rule4)) =>
               handler = "ytdlp_url_handler_audio" /\ probes = 0
        /\ (url.matches = {} /\ ~mentioned) => handler = "None" /\ probes = 0

\* C10 witness: a URL matching both insta and a video family goes to insta, unprobed
C10_Witness ==
    /\ dpc = "chosen"
    /\ url.matches = {"insta", "youtube"}
    /\ url.extensions = {"mp4"}
    /\ url.probe = <<"info", "info">>
    /\ handler = "insta_url_handler"
    /\ probes = 0

\* the extensions the probe returns for the URL in hand
ProbedExtensions == ytdlp_get_extensions(url, cookies).extensions

\* the MIME families the probed extensions map to
ProbedFamilies ==
    {MimeFamily(guess_file_type(e)) : e \in {x \in ProbedExtensions : guess_file_type(x) # ""}}

\* C11: for a probed URL the video handler is chosen when a probed extension
\* maps to video, its audio variant when one maps to audio and none to
\* video, and the generic handler otherwise, also when the extensions are
\* non-empty but none maps to video or audio.
C11_ProbeDecides ==
    (dpc = "chosen" /\ probes = 1) =>
        handler = IF "video" \in ProbedFamilies THEN "ytdlp_url_handler"
                  ELSE IF "audio" \in ProbedFamilies THEN "ytdlp_url_handler_audio"
                  ELSE "gallerydl_url_handler"

\* every call the probe makes for the URL in hand ends in DownloadError
NotFound ==
    IF cookies THEN url.probe = <<"DownloadError", "DownloadError">>
    ELSE url.probe[2] = "DownloadError"

\* C12: a probe that meets "not found" returns no extensions, without
\* raising and without a retry, so the probed URL goes to the generic
\* handler and the dispatch does not fail.
C12_NotFound ==
    (dpc \in {"chosen", "raised"} /\ probes = 1 /\ NotFound) =>
        /\ handler = "gallerydl_url_handler"
        /\ probe_retries = 0
        /\ ProbedExtensions = {}

\* C12 witness: an x URL not found with the cookie file nor without it
C12_Witness ==
    /\ dpc = "chosen"
    /\ url.matches = {"x"}
    /\ cookies
    /\ url.probe = <<"DownloadError", "DownloadError">>
    /\ handler = "gallerydl_url_handler"
    /\ probes = 1

ForcedHandlers == {"ytdlp_url_handler", "ytdlp_url_handler_audio", "gallerydl_url_handler"}

\* C13: for a URL no pattern matches, a handler is chosen exactly when the
\* bot was mentioned; it then comes from one probe and is the video
\* handler, its audio variant or the generic handler; without a mention
\* there is no probe and the step that follows invokes nothing.
C13_Unmatched ==
    /\ []((dpc = "chosen" /\ url.matches = {}) =>
            /\ handler # "None" <=> mentioned
            /\ mentioned => probes = 1 /\ handler \in ForcedHandlers
            /\ ~mentioned => probes = 0)
    /\ [][(dpc = "chosen" /\ url.matches = {} /\ ~mentioned) => invoked' = invoked]_vars

\* C13 witness: an unmatched URL, the bot mentioned, audio only: the audio variant
C13_Witness ==
    /\ dpc = "chosen"
    /\ url.matches = {}
    /\ mentioned
    /\ url.extensions = {"mp3"}
    /\ handler = "ytdlp_url_handler_audio"
    /\ probes = 1

\* C15: a handler that fails for one URL does not end the message: the
\* URLs after it are still dispatched.
C15_ContinuesAfterFailure ==
    ~(dpc = "raised" /\ invoked # <<>> /\ invoked[Len(invoked)].result = "raised"
      /\ urls_left > 0)

\* the chat actions that fit the content of an outbound send
FittingActions(c) ==
    CASE c.op = "send_video" -> {"upload_video"}
      [] c.op = "send_photo" -> {"upload_photo"}
      [] c.op = "send_audio" -> {"upload_voice"}
      [] c.op = "send_message" -> {"typing"}
      [] c.op = "send_media_group" ->
            {IF c.media[i].type = "video" THEN "upload_video"
             ELSE IF c.media[i].type = "photo" THEN "upload_photo"
             ELSE "upload_voice" : i \in 1..Len(c.media)}
      [] OTHER -> {}

\* C20: every outbound send, grouped or single, comes right after a chat
\* action of the kind of its content: upload_video for video, upload_photo
\* for image, upload_voice for audio, typing for text.
C20_ActionBeforeSend ==
    \A k \in 1..Len(plans) :
        \A i \in 1..Len(plans[k]) :
            plans[k][i].op # "send_chat_action" =>
                /\ i > 1
                /\ plans[k][i - 1].op = "send_chat_action"
                /\ plans[k][i - 1].action \in FittingActions(plans[k][i])

FrameRun(frame) == <<frame.fn, frame.run>>

\* C16: a temporary directory is used by the attempt that made it only, it
\* exists only while that attempt is on the stack, whichever way the
\* attempt ends, and no attempt holds the directory of another one.
C16_TempdirScoped ==
    /\ \A d \in 1..Len(tmpdirs) :
        /\ tmpdirs[d].users \subseteq {tmpdirs[d].owner}
        /\ tmpdirs[d].live =>
            \E k \in 1..Len(stack) :
                stack[k].tmp = d /\ FrameRun(stack[k]) = tmpdirs[d].owner
    /\ \A k \in 1..Len(stack) :
        stack[k].tmp # 0 =>
            /\ tmpdirs[stack[k].tmp].owner = FrameRun(stack[k])
            /\ \A j \in 1..Len(stack) : stack[j].tmp = stack[k].tmp => j = k

\* C16 witness: the structured download failed, the fallback, called inside
\* the with block, was retried and delivered; three directories, all gone
C16_Witness ==
    /\ handler = "insta_url_handler"
    /\ result = "returned"
    /\ Len(tmpdirs) = 3
    /\ tmpdirs[1].owner = <<"insta_url_handler", 1>>
    /\ tmpdirs[2].owner = <<"insta_url_handler_instaloader", 1>>
    /\ tmpdirs[3].owner = <<"insta_url_handler_instaloader", 2>>
    /\ \A d \in 1..3 : tmpdirs[d].users # {} /\ ~tmpdirs[d].live

\* C17: sends are never taken back, a retried attempt downloads into a
\* directory made for it, and when the handler call returns every batch of
\* the folder it sent from has been sent at least once.
C17_AtLeastOnce ==
    /\ [][\A b \in 1..MaxBatches : deliveries'[b] >= deliveries[b]]_vars
    /\ [][Len(tmpdirs') > Len(tmpdirs) =>
            /\ SubSeq(tmpdirs', 1, Len(tmpdirs)) = tmpdirs
            /\ tmpdirs'[Len(tmpdirs')].users = {}]_vars
    /\ [](result = "returned" => \A b \in 1..final_loot : deliveries[b] >= 1)

\* C17 witness: the first attempt failed after its first batch, the second
\* one sent both
C17_Witness ==
    /\ handler = "ytdlp_url_handler"
    /\ result = "returned"
    /\ final_loot = 2
    /\ deliveries[1] = 2
    /\ deliveries[2] = 1
    /\ Len(tmpdirs) = 2

\* C18: with a structured client, a failure of the primary tier (resolving
\* the post id, fetching the post info, downloading) and an unknown type
\* hand over to the fallback handler: no exception leaves these steps.
C18_PrimaryFailureFallsBack ==
    ~(/\ insta
      /\ exc # "none"
      /\ stack # <<>>
      /\ Top.fn = "insta_url_handler"
      /\ Top.pc \in {"resolve", "info", "classify", "download"})

\* the post is known and instagrapi_downloader has no downloader for its type
UnmappedType ==
    /\ handler = "insta_url_handler"
    /\ insta
    /\ post_info.media_type \notin {1, 8}
    /\ ~(post_info.media_type = 2 /\ post_info.product_type \in {"feed", "igtv", "clips"})

\* the primary tier made no directory and is at no step that downloads or sends
PrimaryIdle ==
    /\ \A d \in 1..Len(tmpdirs) : tmpdirs[d].owner[1] # "insta_url_handler"
    /\ \A k \in 1..Len(stack) :
        stack[k].fn = "insta_url_handler" => stack[k].pc \notin {"tempdir", "download", "send"}

C21_EveryCallHasTimeout ==
    \A i \in 1..Len(plans) : \A k \in 1..Len(plans[i]) : plans[i][k].timeout

\* the positions of the calls of a plan made with one of the bot methods ops
Positions(plan, ops) == {k \in 1..Len(plan) : plan[k].op \in ops}

\* C28: in a grouped send the text of the batch is delivered exactly once:
\* a text of at most max_caption_chars is the caption of the first member
\* only and no text message is sent; a longer one goes out as text messages
\* before the grouped call and no member has a caption.
C28_GroupTextOnce ==
    \A i \in 1..Len(plans) :
        LET text == BlankLineJoined(batches[i].text)
            groups == Positions(plans[i], {"send_media_group"})
        IN  MediaCount(batches[i]) >= 2 =>
                /\ Cardinality(groups) = 1
                /\ \A g \in groups :
                    LET media == plans[i][g].media
                    IN  IF Len(text) <= max_caption_chars
                        THEN /\ Positions(plans[i], {"send_message"}) = {}
                             /\ media[1].caption # NoneText
                             /\ Unwrapped(media[1].caption) = text
                             /\ \A j \in 2..Len(media) : media[j].caption = NoneText
                        ELSE /\ NoCaption(plans[i])
                             /\ Positions(plans[i], {"send_message"}) # {}
                             /\ \A k \in Positions(plans[i], {"send_message"}) : k < g
                             /\ MessageTexts(plans[i]) = text

\* C28 witness: a group of two images whose text, of exactly
\* max_caption_chars, is the collapsed caption of the first image
C28_Witness ==
    /\ Len(plans) = 1
    /\ Len(batches[1].image) = 2 /\ MediaCount(batches[1]) = 2
    /\ Len(BlankLineJoined(batches[1].text)) = max_caption_chars
    /\ \E g \in Positions(plans[1], {"send_media_group"}) :
        /\ plans[1][g].media[1].type = "photo"
        /\ plans[1][g].media[1].parse_mode = "HTML"
        /\ IsWrapped(plans[1][g].media[1].caption)

\* C29: no text message is sent with an empty text.
C29_NoEmptyTextMessage ==
    \A i \in 1..Len(plans) : \A k \in 1..Len(plans[i]) :
        plans[i][k].op = "send_message" => plans[i][k].text # <<>>

(***************************************************************************)
(* Further properties of the handlers                                      *)
(***************************************************************************)
\* C25: a fetch that fails leaves the handler body as an exception, for the
\* retry wrapper to see, or hands over to a fallback handler: the handler
\* never goes on to return as if nothing had failed.
C25_FetchFailurePropagates ==
    [][(Running /\ Top.pc = "download" /\ raised_count' = raised_count + 1) =>
            (exc' # "none" \/ Len(stack') > Len(stack))]_vars

\* C27: for one URL the body of no handler runs more often than the attempt
\* bound of one retry wrapper, also when the chosen handler calls another
\* wrapped handler.
C27_AttemptsNotMultiplied ==
    \A fn \in HandlerNames : runs[fn] <= MaxAttempts

(***************************************************************************)
(* Properties of the bot, the loot collection, the format choice and the   *)
(* gallery texts                                                           *)
(***************************************************************************)
Busy == {w \in 1..num_threads : workers[w] # 0}

\* C22: at most one message is being handled at any time: a handler starts
\* only after media_link_handler has returned or raised for every message
\* received before
C22_OneAtATime ==
    /\ Cardinality(Busy) <= 1
    /\ \A m \in Messages : handled[m] = "running" =>
            \A n \in 1..(m - 1) : handled[n] \in {"returned", "raised"}

Collected == passes > Len(LootTypes)

\* C23: once the loot is collected, a file without a guessed MIME type is
\* among the texts if its name ends in .description and among the videos if
\* its name ends in .mkv
C23_SuffixClassifies ==
    Collected =>
        \A p \in folder : p.guessed = "" =>
            /\ p.suffix = ".description" => p \in found["text"]
            /\ p.suffix = ".mkv" => p \in found["video"]

\* C24: once the loot is collected, every file that is in none of the four
\* kinds has been logged as unidentified
C24_DroppedIsLogged ==
    Collected =>
        \A p \in folder :
            (\A t \in DOMAIN found : p \notin found[t]) =>
                \E t \in DOMAIN found : <<p, t>> \in unidentified

Heights == {Ladder[k] : k \in 1..Len(Ladder)}

\* C26: when the remote info exists a format is returned: that of the first
\* height of the ladder with a candidate under the ceiling, and that of the
\* top of the ladder when no height has one
C26_Ladder ==
    (f_pc \in {"returned", "raised"} /\ f_info.present) =>
        /\ f_pc = "returned"
        /\ f_format = IF \E h \in Heights : "small" \in f_seen[h]
                      THEN CHOOSE h \in Heights : "small" \in f_seen[h]
                      ELSE Ladder[1]

\* C30: the j-th info.txt holds only text fragments of the j-th info.json
C30_OwnTextOnly ==
    \A j \in 1..Len(g_info_txt) :
        \A k \in 1..Len(g_info_txt[j]) : g_info_txt[j][k][1] = j

====
